---------------------------- MODULE Spec2Model ----------------------------
(***************************************************************************)
(* Water-meter scanner: the chat retrieval flow (query router, the four    *)
(* retrieval strategies, the three-stage fallback chain) and the upload    *)
(* path that fills the store.                                              *)
(*                                                                         *)
(* Text is a sequence of one-character strings, so that lower(), strip()   *)
(* and Python's substring test `kw in s` are computed, not assumed.        *)
(* Real numbers with one decimal are integers in tenths (confidence 0.7    *)
(* is 7); meter values and distances are integers.                         *)
(***************************************************************************)
EXTENDS Integers, Sequences, FiniteSets, TLC

(***************************************************************************)
(* Bounds of the model.                                                    *)
(***************************************************************************)
MaxStore == 2

(***************************************************************************)
(* Text helpers: str.lower(), str.strip(), `sub in s`.                     *)
(***************************************************************************)
UpperAlpha ==
    <<"A","B","C","D","E","F","G","H","I","J","K","L","M",
      "N","O","P","Q","R","S","T","U","V","W","X","Y","Z">>

LowerAlpha ==
    <<"a","b","c","d","e","f","g","h","i","j","k","l","m",
      "n","o","p","q","r","s","t","u","v","w","x","y","z">>

LowerChar(c) ==
    IF \E i \in DOMAIN UpperAlpha : UpperAlpha[i] = c
    THEN LowerAlpha[CHOOSE i \in DOMAIN UpperAlpha : UpperAlpha[i] = c]
    ELSE c

Lower(s) == [i \in DOMAIN s |-> LowerChar(s[i])]

RECURSIVE LStrip(_)
LStrip(s) ==
    IF s # <<>> /\ Head(s) = " " THEN LStrip(Tail(s)) ELSE s

RECURSIVE RStrip(_)
RStrip(s) ==
    IF s # <<>> /\ s[Len(s)] = " " THEN RStrip(SubSeq(s, 1, Len(s) - 1)) ELSE s

Strip(s) == RStrip(LStrip(s))

\* mutant of Contains: str.startswith instead of `in`
ContainsAtStart(s, sub) ==
    Len(sub) <= Len(s) /\ SubSeq(s, 1, Len(sub)) = sub

\* Python's `sub in s` for strings
Contains(s, sub) ==
    \E i \in 0..(Len(s) - Len(sub)) : SubSeq(s, i + 1, i + Len(sub)) = sub

\* any(word in s for word in words)
AnyWordIn(words, s) == \E w \in DOMAIN words : Contains(s, words[w])

(***************************************************************************)
(* The keyword lists of the chat router, in the order of the source.       *)
(***************************************************************************)
RecencyKeywords ==
    << <<"l","a","s","t">>,
       <<"l","a","t","e","s","t">>,
       <<"r","e","c","e","n","t">>,
       <<"n","e","w","e","s","t">>,
       <<"m","o","s","t"," ","r","e","c","e","n","t">> >>

ContextKeywords ==
    << <<"u","s","a","g","e">>,
       <<"h","i","g","h">>,
       <<"l","o","w">>,
       <<"c","o","n","s","u","m","p","t","i","o","n">>,
       <<"s","i","m","i","l","a","r">>,
       <<"p","a","t","t","e","r","n">>,
       <<"h","i","g","h","e","s","t">>,
       <<"l","o","w","e","s","t">> >>

AddressKeywords ==
    << <<"a","d","d","r","e","s","s">>,
       <<"s","t","r","e","e","t">>,
       <<"c","i","t","y">>,
       <<"l","o","c","a","t","i","o","n">>,
       <<"w","h","e","r","e">>,
       <<"a","t">> >>

\* mutant of Route: the address rule tested before the context rule
RouteAddressFirst(user_query) ==
    LET user_query_lower == Lower(user_query) IN
    IF AnyWordIn(RecencyKeywords, user_query_lower) THEN "recency"
    ELSE IF AnyWordIn(AddressKeywords, user_query_lower) THEN "address"
    ELSE IF AnyWordIn(ContextKeywords, user_query_lower) THEN "context"
    ELSE "default"

(***************************************************************************)
(* The router: the if/elif/elif/else chain of chat.                        *)
(***************************************************************************)
Route(user_query) ==
    LET user_query_lower == Lower(user_query) IN
    IF AnyWordIn(RecencyKeywords, user_query_lower) THEN "recency"
    ELSE IF AnyWordIn(ContextKeywords, user_query_lower) THEN "context"
    ELSE IF AnyWordIn(AddressKeywords, user_query_lower) THEN "address"
    ELSE "default"

(***************************************************************************)
(* Small helpers.                                                          *)
(***************************************************************************)
Min(a, b) == IF a < b THEN a ELSE b

Max(a, b) == IF a > b THEN a ELSE b

Front(s) == SubSeq(s, 1, Len(s) - 1)

Last(s) == s[Len(s)]

\* s[:n]
Take(s, n) == SubSeq(s, 1, Min(n, Len(s)))

\* the permutations of 1..n, as sequences
Perms(n) ==
    {p \in [1..n -> 1..n] : \A i, j \in 1..n : i # j => p[i] # p[j]}

(***************************************************************************)
(* The embedding provider.  A vector is abstracted to one integer          *)
(* coordinate, a deterministic function of the embedded text; the L2       *)
(* metric of the index is the squared difference.                          *)
(***************************************************************************)
Embed(text) == Len(text)

L2(a, b) == (a - b) * (a - b)

(***************************************************************************)
(* The vector store (pymilvus Collection), at its interface.               *)
(*   rows    the inserted entities, in insertion order                     *)
(*   search  nearest neighbours of one query vector in one vector field,   *)
(*           ascending distance; `k` is how many hits the index returns,   *)
(*           at most `limit` and at most the number of entities            *)
(*   query   scalar-filtered scan, no ordering guarantee: `order` is the   *)
(*           scan order the server happens to use                          *)
(***************************************************************************)
RECURSIVE InsertAsc(_, _)
InsertAsc(s, h) ==
    IF s = <<>> THEN <<h>>
    ELSE IF h.distance < Head(s).distance THEN <<h>> \o s
    ELSE <<Head(s)>> \o InsertAsc(Tail(s), h)

RECURSIVE SortAsc(_)
SortAsc(s) ==
    IF s = <<>> THEN <<>> ELSE InsertAsc(SortAsc(Front(s)), Last(s))

StoreSearch(rows, vector_field, query_embedding, limit, k) ==
    LET hits == [i \in DOMAIN rows |->
                    [entity   |-> rows[i],
                     distance |-> L2(rows[i][vector_field], query_embedding)]]
    IN  Take(SortAsc(hits), Min(k, limit))

RECURSIVE SelectSeq2(_, _, _)
SelectSeq2(rows, order, expr) ==
    IF order = <<>> THEN <<>>
    ELSE LET r == rows[Head(order)]
             match == \/ expr.kind = "all"          \* id != ''
                      \/ /\ expr.kind = "like"
                         /\ \/ Contains(r.full_address, expr.text)
                            \/ Contains(r.city, expr.text)
                            \/ Contains(r.street_name, expr.text)
         IN  (IF match THEN <<r>> ELSE <<>>) \o SelectSeq2(rows, Tail(order), expr)

StoreQuery(rows, expr, limit, order) ==
    Take(SelectSeq2(rows, order, expr), limit)

\* a quote in the interpolated text ends the string literal of the filter
\* expression early: the server rejects the expression
ExprMalformed(expr) ==
    expr.kind = "like" /\ Contains(expr.text, <<"'">>)

(***************************************************************************)
(* Service handles.  svc is the pair of module-level singletons plus the   *)
(* server-side "collection loaded" flag:                                   *)
(*   mc      MilvusService.connected                                       *)
(*   coll    MilvusService.collection is not None                          *)
(*   bc      BedrockService.connected                                      *)
(*   loaded  the collection is loaded in the server                        *)
(* env is the outcome of the remote calls a strategy makes:                *)
(*   connect, create, bconnect, load, embed, search, q1, q2  succeed?      *)
(*   k       hits the index returns;  order  scan order of a query         *)
(***************************************************************************)
\* Python's None in a numeric field and in a text field of a returned row
NoneNum == -1

NoneText == <<"None">>

\* one remote call a strategy issued: which, on what (the vector field of a
\* search, the kind of filter of a query), with what limit, and whether it
\* succeeded
Op(name, arg, limit, ok) ==
    [op |-> name, arg |-> arg, limit |-> limit, ok |-> ok]

\* a strategy's return: the list, or an exception that leaves the function;
\* with it the handles as the call leaves them, the remote calls it issued
\* in order, and the rows or hits the store gave it
Ret(res, svc, field, ops, raw) ==
    [res |-> res, raised |-> FALSE, svc |-> svc, field |-> field,
     ops |-> ops, raw |-> raw]

Raise(svc, field, ops, raw) ==
    [res |-> <<>>, raised |-> TRUE, svc |-> svc, field |-> field,
     ops |-> ops, raw |-> raw]

\* MilvusService.connect: True and connected = True when an attempt succeeds
MilvusConnect(svc, env) == [svc EXCEPT !.mc = env.connect]

\* MilvusService.create_collection: needs the connection; any error is False
MilvusCreateCollection(svc, env) ==
    [svc EXCEPT !.coll = svc.mc /\ env.create]

\* BedrockService.connect
BedrockConnect(svc, env) == [svc EXCEPT !.bc = env.bconnect]

\* BedrockService.generate_embedding raises when not connected or when the
\* provider fails or returns no vector
EmbeddingRaises(svc, env) == ~svc.bc \/ ~env.embed

\* collection.search raises on a missing handle, an unloaded collection or
\* a server fault
SearchRaises(svc, env) == ~svc.coll \/ ~svc.loaded \/ ~env.search

\* `x or 0`
OrZero(v) == IF v = NoneNum THEN 0 ELSE v

\* float(None) and int(None) raise TypeError
CastRaises(v) == v = NoneNum

\* mutant of FormatSimilar: the records built from the last hit to the first
FormatSimilarReversed(hits) ==
    [i \in DOMAIN hits |->
        [id               |-> hits[Len(hits) + 1 - i].entity.id,
         meter_value      |-> hits[Len(hits) + 1 - i].entity.meter_value,
         full_address     |-> hits[Len(hits) + 1 - i].entity.full_address,
         confidence       |-> hits[Len(hits) + 1 - i].entity.confidence,
         timestamp        |-> hits[Len(hits) + 1 - i].entity.timestamp,
         similarity_score |-> hits[Len(hits) + 1 - i].distance,
         rank             |-> i]]

FormatSimilar(hits) ==
    [i \in DOMAIN hits |->
        [id               |-> hits[i].entity.id,
         meter_value      |-> OrZero(hits[i].entity.meter_value),
         full_address     |-> hits[i].entity.full_address,
         confidence       |-> OrZero(hits[i].entity.confidence),
         timestamp        |-> OrZero(hits[i].entity.timestamp),
         similarity_score |-> hits[i].distance,
         rank             |-> i]]

search_similar_readings(svc, rows, query, search_type, limit, env) ==
    LET svc1 == IF ~svc.mc THEN MilvusConnect(svc, env) ELSE svc
        svc2 == IF ~svc1.coll THEN MilvusCreateCollection(svc1, env) ELSE svc1
        vector_field == IF search_type = "combined" THEN "combined_embedding"
                        ELSE "address_embedding"
        hits == StoreSearch(rows, vector_field, Embed(query), limit, env.k)
        \* the remote calls, in order: connect and create_collection when the
        \* handle is missing, the embedding call when the provider is
        \* connected, the search when there is a vector and a collection
        ops1 == IF ~svc.mc THEN <<Op("connect", "store", 0, svc1.mc)>> ELSE <<>>
        ops2 == ops1 \o (IF ~svc1.coll
                         THEN <<Op("create", "store", 0, svc2.coll)>> ELSE <<>>)
        ops3 == ops2 \o (IF svc2.bc
                         THEN <<Op("embed", "text", 0, env.embed)>> ELSE <<>>)
        ops4 == ops3 \o (IF ~EmbeddingRaises(svc2, env) /\ svc2.coll
                         THEN <<Op("search", vector_field, limit,
                                   ~SearchRaises(svc2, env))>>
                         ELSE <<>>)
    IN  IF EmbeddingRaises(svc2, env) THEN Ret(<<>>, svc2, vector_field, ops3, <<>>)
        ELSE IF SearchRaises(svc2, env) THEN Ret(<<>>, svc2, vector_field, ops4, <<>>)
        ELSE Ret(FormatSimilar(hits), svc2, vector_field, ops4, hits)

\* float(meter_value), float(confidence), int(timestamp) of a hit raise on
\* None
HitCastRaises(hits) ==
    \E i \in DOMAIN hits :
        \/ CastRaises(hits[i].entity.meter_value)
        \/ CastRaises(hits[i].entity.confidence)
        \/ CastRaises(hits[i].entity.timestamp)

FormatAddress(hits) ==
    [i \in DOMAIN hits |->
        [id               |-> hits[i].entity.id,
         meter_value      |-> hits[i].entity.meter_value,
         full_address     |-> hits[i].entity.full_address,
         confidence       |-> hits[i].entity.confidence,
         timestamp        |-> hits[i].entity.timestamp,
         city             |-> hits[i].entity.city,
         street_name      |-> hits[i].entity.street_name,
         street_number    |-> hits[i].entity.street_number,
         similarity_score |-> hits[i].distance]]

\* the remote calls of search_by_address and search_by_context after the
\* handle check: load, the provider's connect when it is not connected, the
\* embedding call when it then is, the search when there is a vector
FieldOps(svc, svc2, vector_field, limit, env) ==
    <<Op("load", "store", 0, env.load)>>
      \o (IF env.load /\ ~svc.bc
          THEN <<Op("bconnect", "provider", 0, svc2.bc)>> ELSE <<>>)
      \o (IF env.load /\ svc2.bc
          THEN <<Op("embed", "text", 0, env.embed)>> ELSE <<>>)
      \o (IF env.load /\ ~EmbeddingRaises(svc2, env)
          THEN <<Op("search", vector_field, limit, ~SearchRaises(svc2, env))>>
          ELSE <<>>)

search_by_address(svc, rows, query, limit, env) ==
    IF ~svc.coll THEN Ret(<<>>, svc, "address_embedding", <<>>, <<>>)
    ELSE IF ~env.load
    THEN Ret(<<>>, svc, "address_embedding",
             FieldOps(svc, svc, "address_embedding", limit, env), <<>>)
    ELSE
      LET svc1 == [svc EXCEPT !.loaded = TRUE]
          svc2 == IF ~svc1.bc THEN BedrockConnect(svc1, env) ELSE svc1
          hits == StoreSearch(rows, "address_embedding", Embed(query), limit,
                              env.k)
          ops  == FieldOps(svc, svc2, "address_embedding", limit, env)
      IN  IF EmbeddingRaises(svc2, env)
          THEN Ret(<<>>, svc2, "address_embedding", ops, <<>>)
          ELSE IF SearchRaises(svc2, env)
          THEN Ret(<<>>, svc2, "address_embedding", ops, <<>>)
          ELSE IF HitCastRaises(hits)
          THEN Ret(<<>>, svc2, "address_embedding", ops, hits)
          ELSE Ret(FormatAddress(hits), svc2, "address_embedding", ops, hits)

FormatContext(hits) ==
    [i \in DOMAIN hits |->
        [id               |-> hits[i].entity.id,
         meter_value      |-> hits[i].entity.meter_value,
         full_address     |-> hits[i].entity.full_address,
         confidence       |-> hits[i].entity.confidence,
         timestamp        |-> hits[i].entity.timestamp,
         city             |-> hits[i].entity.city,
         street_name      |-> hits[i].entity.street_name,
         street_number    |-> hits[i].entity.street_number,
         similarity_score |-> hits[i].distance]]

\* mutant of search_by_context: the search made in the address field
search_by_context_address(svc, rows, query, limit, env) ==
    search_by_address(svc, rows, query, limit, env)

search_by_context(svc, rows, query, limit, env) ==
    IF ~svc.coll THEN Ret(<<>>, svc, "combined_embedding", <<>>, <<>>)
    ELSE IF ~env.load
    THEN Ret(<<>>, svc, "combined_embedding",
             FieldOps(svc, svc, "combined_embedding", limit, env), <<>>)
    ELSE
      LET svc1 == [svc EXCEPT !.loaded = TRUE]
          svc2 == IF ~svc1.bc THEN BedrockConnect(svc1, env) ELSE svc1
          hits == StoreSearch(rows, "combined_embedding", Embed(query), limit,
                              env.k)
          ops  == FieldOps(svc, svc2, "combined_embedding", limit, env)
      IN  IF EmbeddingRaises(svc2, env)
          THEN Ret(<<>>, svc2, "combined_embedding", ops, <<>>)
          ELSE IF SearchRaises(svc2, env)
          THEN Ret(<<>>, svc2, "combined_embedding", ops, <<>>)
          ELSE IF HitCastRaises(hits)
          THEN Ret(<<>>, svc2, "combined_embedding", ops, hits)
          ELSE Ret(FormatContext(hits), svc2, "combined_embedding", ops, hits)

\* mutant of SortByTimestampDesc: the rows left in the order of the scan
Unsorted(s) == s

\* sorted(converted_results, key=timestamp, reverse=True): stable
RECURSIVE InsertDesc(_, _)
InsertDesc(s, r) ==
    IF s = <<>> THEN <<r>>
    ELSE IF r.timestamp > Head(s).timestamp THEN <<r>> \o s
    ELSE <<Head(s)>> \o InsertDesc(Tail(s), r)

RECURSIVE SortByTimestampDesc(_)
SortByTimestampDesc(s) ==
    IF s = <<>> THEN <<>>
    ELSE InsertDesc(SortByTimestampDesc(Front(s)), Last(s))

\* sorted() compares None with an int as soon as there are two rows
SortRaises(results) ==
    Len(results) >= 2 /\ \E i \in DOMAIN results : results[i].timestamp = NoneNum

\* float(meter_value), float(confidence), int(timestamp) of a row raise on
\* None
RowCastRaises(limited_results) ==
    \E i \in DOMAIN limited_results :
        \/ CastRaises(limited_results[i].meter_value)
        \/ CastRaises(limited_results[i].confidence)
        \/ CastRaises(limited_results[i].timestamp)

FormatRecency(limited_results) ==
    [i \in DOMAIN limited_results |->
        [id               |-> limited_results[i].id,
         meter_value      |-> limited_results[i].meter_value,
         full_address     |-> limited_results[i].full_address,
         confidence       |-> limited_results[i].confidence,
         timestamp        |-> limited_results[i].timestamp,
         city             |-> limited_results[i].city,
         street_name      |-> limited_results[i].street_name,
         street_number    |-> limited_results[i].street_number,
         similarity_score |-> 0,
         rank             |-> i,
         search_type      |-> "recency"]]

\* the filter expression of the recency query
RecencyExpr(query) ==
    IF Strip(query) # <<>> THEN [kind |-> "like", text |-> query]
    ELSE [kind |-> "all", text |-> <<>>]

MatchAll == [kind |-> "all", text |-> <<>>]

\* mutant of LimitedResults: the sorted rows not cut to the limit
LimitedResultsAll(sorted_results, limit) == sorted_results

\* sorted_results[:limit]
LimitedResults(sorted_results, limit) == Take(sorted_results, limit)

\* limit=limit * 2 of both queries
RecencyFetchLimit(limit) == limit * 2

\* mutant of RecencyOps: the match-all query issued once more when it fails
RecencyOpsRetry(expr, limit, env) ==
    LET firstFails == ~env.q1 \/ ExprMalformed(expr) IN
    <<Op("load", "store", 0, env.load)>>
      \o (IF env.load
          THEN <<Op("query", expr.kind, limit * 2, ~firstFails)>>
          ELSE <<>>)
      \o (IF env.load /\ firstFails
          THEN <<Op("query", "all", limit * 2, env.q2)>>
          ELSE <<>>)
      \o (IF env.load /\ firstFails /\ ~env.q2
          THEN <<Op("query", "all", limit * 2, FALSE)>>
          ELSE <<>>)

\* the store calls of search_by_recency after the handle check: load, the
\* query, and the match-all query when the first one failed
RecencyOps(expr, limit, env) ==
    LET firstFails == ~env.q1 \/ ExprMalformed(expr) IN
    <<Op("load", "store", 0, env.load)>>
      \o (IF env.load
          THEN <<Op("query", expr.kind, RecencyFetchLimit(limit), ~firstFails)>>
          ELSE <<>>)
      \o (IF env.load /\ firstFails
          THEN <<Op("query", MatchAll.kind, RecencyFetchLimit(limit), env.q2)>>
          ELSE <<>>)

\* mutant of search_by_recency: a failed query is answered with no rows
\* instead of the match-all query
search_by_recency_nofallback(svc, rows, query, limit, env) ==
    IF ~svc.coll THEN Ret(<<>>, svc, "none", <<>>, <<>>)
    ELSE IF ~env.load
    THEN Ret(<<>>, svc, "none", <<Op("load", "store", 0, FALSE)>>, <<>>)
    ELSE
      LET svc1 == [svc EXCEPT !.loaded = TRUE]
          expr == RecencyExpr(query)
          firstFails == ~env.q1 \/ ExprMalformed(expr)
          results == IF firstFails THEN <<>>
                     ELSE StoreQuery(rows, expr, RecencyFetchLimit(limit),
                                     env.order)
          ops == <<Op("load", "store", 0, TRUE),
                   Op("query", expr.kind, RecencyFetchLimit(limit), ~firstFails)>>
      IN  IF results = <<>> THEN Ret(<<>>, svc1, "none", ops, results)
          ELSE Ret(FormatRecency(LimitedResults(SortByTimestampDesc(results), limit)),
                   svc1, "none", ops, results)

search_by_recency(svc, rows, query, limit, env) ==
    IF ~svc.coll THEN Ret(<<>>, svc, "none", <<>>, <<>>)
    ELSE IF ~env.load
    THEN Ret(<<>>, svc, "none", RecencyOps(RecencyExpr(query), limit, env), <<>>)
    ELSE
      LET svc1 == [svc EXCEPT !.loaded = TRUE]
          expr == RecencyExpr(query)
          firstFails == ~env.q1 \/ ExprMalformed(expr)
          results == IF firstFails
                     THEN StoreQuery(rows, MatchAll, RecencyFetchLimit(limit),
                                     env.order)
                     ELSE StoreQuery(rows, expr, RecencyFetchLimit(limit),
                                     env.order)
          ops == RecencyOps(expr, limit, env)
      IN  IF firstFails /\ ~env.q2 THEN Raise(svc1, "none", ops, <<>>)
          ELSE IF results = <<>> THEN Ret(<<>>, svc1, "none", ops, results)
          ELSE IF SortRaises(results) THEN Raise(svc1, "none", ops, results)
          ELSE LET limited_results == LimitedResults(SortByTimestampDesc(results), limit)
               IN  IF RowCastRaises(limited_results)
                   THEN Raise(svc1, "none", ops, results)
                   ELSE Ret(FormatRecency(limited_results), svc1, "none", ops,
                            results)

(***************************************************************************)
(* The upload path: vision analysis, embeddings, storage.                  *)
(***************************************************************************)
Digits == <<"0","1","2","3","4","5","6","7","8","9">>

\* str() of a float with a zero fraction, 0.0 .. 9.0
FloatText(v) == <<Digits[v + 1], ".", "0">>

WaterMeterAt == <<"W","a","t","e","r"," ","m","e","t","e","r"," ","a","t"," ">>

ReadingText == <<" ","r","e","a","d","i","n","g"," ">>

CubicMeters == <<"c","u","b","i","c","_","m","e","t","e","r","s">>

Unknown == <<"u","n","k","n","o","w","n">>

\* the function falls off its end: Python returns None
NoneResult ==
    [isNone |-> TRUE, meter_value |-> 0, confidence |-> 0, units |-> Unknown,
     reading_visible |-> FALSE, path |-> "text"]

\* the dictionary of the outer `except Exception`
ErrorResult ==
    [isNone |-> FALSE, meter_value |-> 0, confidence |-> 0, units |-> Unknown,
     reading_visible |-> FALSE, path |-> "error"]

\* mutant of ClampConfidence: the confidence of the answer taken as it is
ClampConfidenceNot(confidence) == confidence

\* max(0.0, min(1.0, confidence)), in tenths
ClampConfidence(confidence) == Max(0, Min(10, confidence))

\* BedrockService.analyze_meter_image.  vision.kind is what the vision call
\* gives back: "error" (the call raises), "text" (no JSON in the answer) or
\* "json" (an object with meter_value and, as vision.conf_kind says, a
\* confidence that is a number in tenths, null, a text that is no number,
\* or missing).
\*   float(None) is a TypeError: the outer except answers the error
\*   dictionary; float("high") is a ValueError, json.loads without JSON a
\*   JSONDecodeError: the inner except builds the text-extraction result
\*   and does not return it.
analyze_meter_image(svc, vision) ==
    IF ~svc.bc \/ vision.kind = "error" THEN ErrorResult
    ELSE IF vision.kind = "text" THEN NoneResult
    ELSE IF vision.conf_kind = "null" THEN ErrorResult
    ELSE IF vision.conf_kind = "text" THEN NoneResult
    ELSE [isNone |-> FALSE, meter_value |-> vision.meter_value,
          confidence |-> ClampConfidence(IF vision.conf_kind = "missing"
                                         THEN 0 ELSE vision.confidence),
          units |-> CubicMeters, reading_visible |-> TRUE, path |-> "json"]

\* f"{street_number} {street_name}, {city}"
FullAddress(address_info) ==
    address_info.street_number \o <<" ">> \o address_info.street_name
        \o <<",", " ">> \o address_info.city

\* BedrockService.generate_meter_embeddings
generate_meter_embeddings(address_info, meter_value, units) ==
    LET full_address == FullAddress(address_info)
        combined_text == WaterMeterAt \o full_address \o ReadingText
                            \o FloatText(meter_value) \o <<" ">> \o units
    IN  [address_embedding  |-> Embed(full_address),
         combined_embedding |-> Embed(combined_text),
         full_address       |-> full_address]

\* the entity MilvusService.store_meter_reading inserts
StoredRow(reading_id, address_info, meter_value, confidence, embeddings, timestamp) ==
    [id                 |-> reading_id,
     address_embedding  |-> embeddings.address_embedding,
     combined_embedding |-> embeddings.combined_embedding,
     meter_value        |-> meter_value,
     city               |-> address_info.city,
     street_name        |-> address_info.street_name,
     street_number      |-> address_info.street_number,
     full_address       |-> embeddings.full_address,
     timestamp          |-> timestamp,
     confidence         |-> confidence]

(***************************************************************************)
(* Inputs.                                                                 *)
(***************************************************************************)
QLatest == <<"l","a","t","e","s","t">>

QUsageAddress == <<"u","s","a","g","e"," ","a","d","d","r","e","s","s">>

QWhat == <<"w","h","a","t">>

QHi == <<"h","i">>

QLast == <<"L","a","s","t">>

QBlank == <<" ">>

QHigh == <<"H","I","G","H">>

QRecentLow == <<"r","e","c","e","n","t"," ","l","o","w">>

QQuote == <<"i","t","'","s"," ","l","a","s","t">>

QCity == <<"c","i","t","y"," ">>

Questions ==
    {QLatest, QUsageAddress, QWhat, QHi, QLast, QBlank, QHigh, QRecentLow,
     QQuote, QCity}

Addresses ==
    {[city |-> <<"U","r">>, street_name |-> <<"E","l","m">>,
      street_number |-> <<"1">>],
     [city |-> <<"U","r">>, street_name |-> <<"L","a","s","t">>,
      street_number |-> <<"4">>]}

\* int(time.time()) at the upload
Timestamps == {100, 200}

VisionResponses ==
    {[kind |-> "error", meter_value |-> 0, confidence |-> 0, conf_kind |-> "number"],
     [kind |-> "text",  meter_value |-> 0, confidence |-> 0, conf_kind |-> "number"],
     [kind |-> "json",  meter_value |-> 5, confidence |-> 15, conf_kind |-> "number"]}

\* the vision answers that carry a reading
StoringVisions == {v \in VisionResponses : v.kind = "json"}

Identity(n) == [i \in 1..n |-> i]

\* outcomes of the remote calls of search_similar_readings
SimilarEnvs(svc, n, limit) ==
    {e \in [connect  : IF svc.mc THEN {TRUE} ELSE BOOLEAN,
            create   : IF svc.coll THEN {TRUE} ELSE BOOLEAN,
            bconnect : {TRUE}, load : {TRUE},
            embed    : BOOLEAN, search : BOOLEAN,
            k        : 0..Min(limit, n),
            q1 : {TRUE}, q2 : {TRUE}, order : {Identity(n)}] :
        /\ (~e.embed => e.search)
        /\ (~e.embed \/ ~e.search) => e.k = 0}

\* outcomes of the remote calls of search_by_address and search_by_context
FieldEnvs(svc, n, limit) ==
    {e \in [connect  : {TRUE}, create : {TRUE},
            bconnect : IF svc.bc THEN {TRUE} ELSE BOOLEAN,
            load     : BOOLEAN,
            embed    : BOOLEAN, search : BOOLEAN,
            k        : 0..Min(limit, n),
            q1 : {TRUE}, q2 : {TRUE}, order : {Identity(n)}] :
        /\ (~e.load => e.embed)
        /\ (~e.embed => e.search)
        /\ (~e.load \/ ~e.embed \/ ~e.search) => e.k = 0}

\* outcomes of the remote calls of search_by_recency
RecencyEnvs(n) ==
    {e \in [connect  : {TRUE}, create : {TRUE}, bconnect : {TRUE},
            load     : BOOLEAN,
            embed    : {TRUE}, search : {TRUE}, k : {0},
            q1 : BOOLEAN, q2 : BOOLEAN, order : Perms(n)] :
        ~e.load => (e.q1 /\ e.q2 /\ e.order = Identity(n))}

(***************************************************************************)
(* State.                                                                  *)
(*   started          the startup hook has run                             *)
(*   svc              the service singletons (see above)                   *)
(*   store            the entities of the collection, in insertion order   *)
(*   pc               position of the chat request in flight               *)
(*   user_query       query.message.strip()                                *)
(*   route            the branch of the router taken                       *)
(*   context_results  chat's local of that name                            *)
(*   calls            history: the strategy calls chat has made            *)
(*   chatResp         the response of chat (status 0: none yet)            *)
(*   uploadResp       the response of the last upload (status 0: none)     *)
(*   running          the coroutine that holds the event loop (0: none)    *)
(*   rq               the strategy calls in flight as coroutines: where    *)
(*                    each is, and the locals of its connect() call        *)
(*   handle           the connections behind the handles: usable?, and     *)
(*                    how many times each was established                  *)
(***************************************************************************)
VARIABLES started, svc, store, pc, user_query, route, context_results,
          calls, chatResp, uploadResp, running, rq, handle

vars == <<started, svc, store, pc, user_query, route, context_results,
          calls, chatResp, uploadResp, running, rq, handle>>

connVars == <<running, rq, handle>>

NoHandle ==
    [storeUsable |-> FALSE, providerUsable |-> FALSE,
     storeEstablished |-> 0, providerEstablished |-> 0]

chatVars == <<pc, user_query, route, context_results, calls, chatResp>>

NoResp == [status |-> 0, sources_count |-> 0]

\* the response of an upload, with what the request did on its way:
\*   analysis      what analyze_meter_image gave ("n/a": not called)
\*   store_called  store_meter_reading was called
\*   stored        what it returned
\*   confidence    the confidence passed to it
UploadResp(status, analysis, store_called, stored, confidence) ==
    [status |-> status, success |-> status = 200, analysis |-> analysis,
     store_called |-> store_called, stored |-> stored,
     confidence |-> confidence]

NoUpload == UploadResp(0, "n/a", FALSE, FALSE, 0)

Init ==
    /\ started = FALSE
    /\ svc = [mc |-> FALSE, coll |-> FALSE, bc |-> FALSE, loaded |-> FALSE]
    /\ store = <<>>
    /\ pc = "idle"
    /\ user_query = <<>>
    /\ route = "none"
    /\ context_results = <<>>
    /\ calls = <<>>
    /\ chatResp = NoResp
    /\ uploadResp = NoUpload
    /\ running = 0
    /\ rq = <<>>
    /\ handle = NoHandle

\* startup_event: MilvusService.initialize (connect, create_collection,
\* create_indexes, each step only after the one before succeeded), then
\* BedrockService.initialize
Startup ==
    /\ ~started
    /\ \E connect \in BOOLEAN, create \in BOOLEAN, bconnect \in BOOLEAN :
          svc' = [mc     |-> connect,
                  coll   |-> connect /\ create,
                  bc     |-> bconnect,
                  loaded |-> FALSE]
    /\ started' = TRUE
    /\ UNCHANGED <<store, chatVars, uploadResp, connVars>>

(***************************************************************************)
(* upload_meter_reading, one request from start to response.               *)
(***************************************************************************)
\* mutant of store_meter_reading: the entity written over the collection
store_meter_reading_overwrite(rows, row, insertOk, flushOk) ==
    [stored |-> TRUE, rows |-> <<row>>]

\* MilvusService.store_meter_reading: False without a collection and when
\* insert or flush raises, True after both; an insert that went through
\* has added the entity, also when the flush after it raises
store_meter_reading(rows, row, insertOk, flushOk) ==
    IF ~svc.coll THEN [stored |-> FALSE, rows |-> rows]
    ELSE IF ~insertOk THEN [stored |-> FALSE, rows |-> rows]
    ELSE IF ~flushOk THEN [stored |-> FALSE, rows |-> Append(rows, row)]
    ELSE [stored |-> TRUE, rows |-> Append(rows, row)]

\* mutant of UploadStatus: a reading that was not stored reported as a failure
UploadStatusStrict(stored) == IF stored THEN 200 ELSE 500

\* `if not stored:` only logs a warning; the response that follows is the
\* successful one
UploadStatus(stored) == 200

\* an exception of generate_meter_embeddings reaches the bare `except:`,
\* whose log line reads the unbound `exc`: the request ends with 500
UploadWith(address_info, now, vision, embedOk, insertOk, flushOk) ==
    /\ started
    /\ Len(store) < MaxStore
    /\ IF ~svc.bc
       THEN /\ uploadResp' = UploadResp(503, "n/a", FALSE, FALSE, 0)
            /\ store' = store
       ELSE LET vision_result == analyze_meter_image(svc, vision) IN
            IF vision_result.isNone
            THEN /\ uploadResp' = UploadResp(500, "None", FALSE, FALSE, 0)
                 /\ store' = store
            ELSE IF ~embedOk
            THEN /\ uploadResp' = UploadResp(500, vision_result.path, FALSE,
                                             FALSE, 0)
                 /\ store' = store
            ELSE LET embeddings == generate_meter_embeddings(
                                       address_info, vision_result.meter_value,
                                       vision_result.units)
                     row == StoredRow(Len(store) + 1, address_info,
                                      vision_result.meter_value,
                                      vision_result.confidence, embeddings, now)
                     out == store_meter_reading(store, row, insertOk, flushOk)
                 IN  /\ store' = out.rows
                     /\ uploadResp' = UploadResp(UploadStatus(out.stored),
                                                 vision_result.path, TRUE,
                                                 out.stored,
                                                 vision_result.confidence)
    /\ UNCHANGED <<started, svc, chatVars, connVars>>

\* the uploads of a readable image whose remote calls all succeed
Upload ==
    \E address_info \in Addresses, now \in Timestamps,
       vision \in StoringVisions :
        UploadWith(address_info, now, vision, TRUE, TRUE, TRUE)

(***************************************************************************)
(* chat, step by step: guards and routing, stage 1 (the routed strategy),  *)
(* stage 2, stage 3, generation, response.                                 *)
(***************************************************************************)
\* the status the guards of chat raise, 0 when they pass
ChatGuard(q) ==
    IF Strip(q) = <<>> THEN 400
    ELSE IF ~svc.bc THEN 503
    ELSE IF ~svc.coll THEN 503
    ELSE 0

\* chat from the request to the routing, for a question of the given set
ChatBeginFrom(questions) ==
    /\ started
    /\ pc = "idle"
    /\ \E q \in questions :
          /\ user_query' = Strip(q)
          /\ IF ChatGuard(q) # 0
             THEN /\ chatResp' = [status |-> ChatGuard(q), sources_count |-> 0]
                  /\ pc' = "done"
                  /\ route' = "none"
             ELSE /\ chatResp' = chatResp
                  /\ pc' = "stage1"
                  /\ route' = Route(Strip(q))
    /\ UNCHANGED <<started, svc, store, context_results, calls, uploadResp,
                   connVars>>

ChatBegin == ChatBeginFrom(Questions)

\* the strategy call chat makes for the branch of the router it took
Stage1Args ==
    CASE route = "recency" ->
           [fn |-> "search_by_recency", query |-> user_query,
            search_type |-> "n/a", limit |-> 5]
      [] route = "context" ->
           [fn |-> "search_by_context", query |-> user_query,
            search_type |-> "n/a", limit |-> 5]
      [] route = "address" ->
           [fn |-> "search_by_address", query |-> user_query,
            search_type |-> "n/a", limit |-> 5]
      [] OTHER ->
           [fn |-> "search_similar_readings", query |-> user_query,
            search_type |-> "combined", limit |-> 5]

\* mutant of Stage2Args: the limit not enlarged
Stage2ArgsSameLimit ==
    [fn |-> "search_similar_readings", query |-> user_query,
     search_type |-> "address", limit |-> 5]

\* the broader search tried when stage 1 found nothing
Stage2Args ==
    [fn |-> "search_similar_readings", query |-> user_query,
     search_type |-> "address", limit |-> 10]

\* mutant of Stage3Args: the question passed on as the filter
Stage3ArgsWithQuery ==
    [fn |-> "search_by_recency", query |-> user_query,
     search_type |-> "n/a", limit |-> 5]

\* the recent readings taken as context when stage 2 found nothing
Stage3Args ==
    [fn |-> "search_by_recency", query |-> <<>>,
     search_type |-> "n/a", limit |-> 5]

\* the outcomes of the remote calls the called strategy can meet
Envs(a) ==
    CASE a.fn = "search_by_recency" -> RecencyEnvs(Len(store))
      [] a.fn = "search_similar_readings" -> SimilarEnvs(svc, Len(store), a.limit)
      [] OTHER -> FieldEnvs(svc, Len(store), a.limit)

\* the call itself
Invoke(a, env) ==
    CASE a.fn = "search_by_recency" ->
           search_by_recency(svc, store, a.query, a.limit, env)
      [] a.fn = "search_by_context" ->
           search_by_context(svc, store, a.query, a.limit, env)
      [] a.fn = "search_by_address" ->
           search_by_address(svc, store, a.query, a.limit, env)
      [] OTHER ->
           search_similar_readings(svc, store, a.query, a.search_type,
                                   a.limit, env)

\* one entry of the call history: the arguments, what came back, and what
\* the store did (load succeeded?, entities it held)
CallEntry(a, r, env) ==
    [fn |-> a.fn, query |-> a.query, search_type |-> a.search_type,
     limit |-> a.limit, field |-> r.field, res |-> r.res, raised |-> r.raised,
     load |-> env.load, nrows |-> Len(store)]

\* mutant of AfterStage1: the broader search always runs
AfterStage1Always(res) == "stage2"

\* `if not context_results:` after stage 1
AfterStage1(res) == IF res = <<>> THEN "stage2" ELSE "generate"

\* mutant of AfterStage2: the recent readings never taken as context
AfterStage2Skip(res) == "generate"

\* `if not context_results:` after stage 2
AfterStage2(res) == IF res = <<>> THEN "stage3" ELSE "generate"

\* a strategy call of chat and what follows it: an exception leaves chat
\* (the framework answers 500); else the list becomes context_results
CallRecording(a, env, nextpc, entry) ==
    LET r == Invoke(a, env) IN
    /\ calls' = Append(calls, entry)
    /\ svc' = r.svc
    /\ IF r.raised
       THEN /\ pc' = "done"
            /\ chatResp' = [status |-> 500, sources_count |-> 0]
            /\ context_results' = context_results
       ELSE /\ pc' = (CASE nextpc = "after1" -> AfterStage1(r.res)
                        [] nextpc = "after2" -> AfterStage2(r.res)
                        [] OTHER -> nextpc)
            /\ chatResp' = chatResp
            /\ context_results' = r.res
    /\ UNCHANGED <<started, store, user_query, route, uploadResp, connVars>>

Call(a, env, nextpc) ==
    CallRecording(a, env, nextpc, CallEntry(a, Invoke(a, env), env))

ChatStage1 ==
    /\ pc = "stage1"
    /\ \E env \in Envs(Stage1Args) : Call(Stage1Args, env, "after1")

ChatStage2 ==
    /\ pc = "stage2"
    /\ \E env \in Envs(Stage2Args) : Call(Stage2Args, env, "after2")

ChatStage3 ==
    /\ pc = "stage3"
    /\ \E env \in Envs(Stage3Args) : Call(Stage3Args, env, "generate")

\* generate_chat_response catches every error and returns a string
ChatGenerate ==
    /\ pc = "generate"
    /\ chatResp' = [status |-> 200, sources_count |-> Len(context_results)]
    /\ pc' = "done"
    /\ UNCHANGED <<started, svc, store, user_query, route, context_results,
                   calls, uploadResp, connVars>>

\* the response is sent; the next request may come
ChatReturn ==
    /\ pc = "done"
    /\ pc' = "idle"
    /\ user_query' = <<>>
    /\ route' = "none"
    /\ context_results' = <<>>
    /\ calls' = <<>>
    /\ chatResp' = NoResp
    /\ UNCHANGED <<started, svc, store, uploadResp, connVars>>

Next ==
    \/ Startup
    \/ Upload
    \/ ChatBegin
    \/ ChatStage1
    \/ ChatStage2
    \/ ChatStage3
    \/ ChatGenerate
    \/ ChatReturn

Spec == Init /\ [][Next]_vars

(***************************************************************************)
(* The strategies called one by one, as functions of the handles, the      *)
(* store and their arguments.  The store holds the first rows of a fixed   *)
(* collection of readings written through the upload path; the handles     *)
(* are in any state a process can have them in; the limit is small, so     *)
(* that the store has more rows than a call asks for.                      *)
(***************************************************************************)
MaxRows == 3

MaxLimit == 2

ScenarioAddresses ==
    << [city          |-> <<"S","p","r","i","n","g","f","i","e","l","d">>,
        street_name   |-> <<"E","l","m"," ","S","t">>,
        street_number |-> <<"1","2">>],
       [city          |-> <<"S","p","r","i","n","g","f","i","e","l","d">>,
        street_name   |-> <<"O","a","k"," ","A","v","e">>,
        street_number |-> <<"4","5">>],
       [city          |-> <<"S","p","r","i","n","g","f","i","e","l","d">>,
        street_name   |-> <<"E","l","m"," ","S","t">>,
        street_number |-> <<"1","2">>],
       [city          |-> <<"S","h","e","l","b","y","v","i","l","l","e">>,
        street_name   |-> <<"P","i","n","e"," ","R","d">>,
        street_number |-> <<"7">>] >>

ScenarioTimestamps == <<100, 300, 200, 200>>

ScenarioValues == <<5, 7, 6, 5>>

\* the i-th reading, as upload_meter_reading stores it (confidence 0.9)
ScenarioRow(i) ==
    StoredRow(i, ScenarioAddresses[i], ScenarioValues[i], 9,
              generate_meter_embeddings(ScenarioAddresses[i], ScenarioValues[i],
                                        CubicMeters),
              ScenarioTimestamps[i])

ScenarioStore(n) == [i \in 1..n |-> ScenarioRow(i)]

StrategyStores ==
    {ScenarioStore(n) : n \in 0..Min(MaxRows, Len(ScenarioAddresses))}

QEmpty == <<>>

QElm == <<"E","l","m">>

QOaks == <<"O","a","k","'","s">>

StrategyQueries == {QEmpty, QBlank, QElm, QOaks}

StrategyLimits == 1..MaxLimit

\* the handles of a process: no collection without a connection, no loaded
\* collection without a collection handle
StrategyHandles ==
    {h \in [mc : BOOLEAN, coll : BOOLEAN, bc : BOOLEAN, loaded : BOOLEAN] :
        (h.coll => h.mc) /\ (h.loaded => h.coll)}

StrategyInit ==
    /\ started = TRUE
    /\ svc \in StrategyHandles
    /\ store \in StrategyStores
    /\ pc = "strategy"
    /\ user_query = <<>>
    /\ route = "none"
    /\ context_results = <<>>
    /\ calls = <<>>
    /\ chatResp = NoResp
    /\ uploadResp = NoUpload
    /\ running = 0
    /\ rq = <<>>
    /\ handle = NoHandle

\* the record of a strategy call: the arguments, the handles before it,
\* what came back, the remote calls it issued and what the store gave it
StrategyEntry(a, r) ==
    [fn |-> a.fn, query |-> a.query, search_type |-> a.search_type,
     limit |-> a.limit, field |-> r.field, res |-> r.res, raised |-> r.raised,
     before |-> svc, ops |-> r.ops, raw |-> r.raw]

StrategyCall(a, env) ==
    LET r == Invoke(a, env) IN
    /\ calls = <<>>
    /\ calls' = <<StrategyEntry(a, r)>>
    /\ svc' = r.svc
    /\ UNCHANGED <<started, store, pc, user_query, route, context_results,
                   chatResp, uploadResp, connVars>>

StrategySimilar ==
    \E query \in StrategyQueries, search_type \in {"combined", "address"},
       limit \in StrategyLimits :
        LET a == [fn |-> "search_similar_readings", query |-> query,
                  search_type |-> search_type, limit |-> limit]
        IN  \E env \in Envs(a) : StrategyCall(a, env)

StrategyAddress ==
    \E query \in StrategyQueries, limit \in StrategyLimits :
        LET a == [fn |-> "search_by_address", query |-> query,
                  search_type |-> "n/a", limit |-> limit]
        IN  \E env \in Envs(a) : StrategyCall(a, env)

StrategyContext ==
    \E query \in StrategyQueries, limit \in StrategyLimits :
        LET a == [fn |-> "search_by_context", query |-> query,
                  search_type |-> "n/a", limit |-> limit]
        IN  \E env \in Envs(a) : StrategyCall(a, env)

StrategyRecency ==
    \E query \in StrategyQueries, limit \in StrategyLimits :
        LET a == [fn |-> "search_by_recency", query |-> query,
                  search_type |-> "n/a", limit |-> limit]
        IN  \E env \in Envs(a) : StrategyCall(a, env)

\* the call has returned; the handles stay as it left them
StrategyReturn ==
    /\ pc = "strategy"
    /\ calls # <<>>
    /\ calls' = <<>>
    /\ UNCHANGED <<started, svc, store, pc, user_query, route,
                   context_results, chatResp, uploadResp, connVars>>

StrategyNext ==
    \/ StrategySimilar
    \/ StrategyAddress
    \/ StrategyContext
    \/ StrategyRecency
    \/ StrategyReturn

StrategySpec == StrategyInit /\ [][StrategyNext]_vars

(***************************************************************************)
(* The strategies over a collection that was not written by the upload     *)
(* path alone: create_collection adopts a collection that already exists,  *)
(* whatever wrote it, so a returned row may carry None in a scalar field.  *)
(***************************************************************************)
NullableFields ==
    {"meter_value", "confidence", "timestamp", "id",
     "full_address", "city", "street_name", "street_number"}

\* None in field f: ids and numbers are integers of the model, the rest text
NoneOf(f) ==
    IF f \in {"meter_value", "confidence", "timestamp", "id"}
    THEN NoneNum ELSE NoneText

WithNull(row, f) == [row EXCEPT ![f] = NoneOf(f)]

\* the stores with one row that has one scalar field None
PartialStores ==
    UNION {UNION {{[ScenarioStore(n) EXCEPT ![i] = WithNull(@, f)] :
                      f \in NullableFields} :
                  i \in 1..n} :
           n \in 1..Min(MaxRows, Len(ScenarioAddresses))}

PartialInit ==
    /\ started = TRUE
    /\ svc \in {h \in StrategyHandles : h.coll /\ h.bc}
    /\ store \in PartialStores
    /\ pc = "strategy"
    /\ user_query = <<>>
    /\ route = "none"
    /\ context_results = <<>>
    /\ calls = <<>>
    /\ chatResp = NoResp
    /\ uploadResp = NoUpload
    /\ running = 0
    /\ rq = <<>>
    /\ handle = NoHandle

PartialSpec == PartialInit /\ [][StrategyNext]_vars

(***************************************************************************)
(* Strategy calls running as coroutines on one event loop, with the        *)
(* handles not yet established: the check-then-connect at the head of      *)
(* search_similar_readings (the store) and of search_by_address and        *)
(* search_by_context (the provider), and MilvusService.connect attempt by   *)
(* attempt.  A coroutine that has the loop keeps it until it awaits        *)
(* something that suspends or returns; nothing these coroutines await      *)
(* suspends, and time.sleep blocks the loop.                               *)
(***************************************************************************)
NRequests == 2

Requests == 1..NRequests

max_retries == 3

retry_delay == 2

\* mutant of SleepReleasesLoop: the delay awaited, as asyncio.sleep would be
SleepReleasesLoopAsync == TRUE

\* time.sleep(retry_delay) inside the coroutine: the loop is not released
SleepReleasesLoop == FALSE

\* mutant of RetryAgain: the last attempt taken for one more to retry
RetryAgainOffByOne(attempt) == attempt < max_retries

\* `if attempt < max_retries - 1:` after a failed attempt
RetryAgain(attempt) == attempt < max_retries - 1

\* the locals of a connect() call: the loop index, the outcome of each
\* attempt made, the delays slept, and what the call returned
NewCall == [attempt |-> 0, outcomes |-> <<>>, sleeps |-> <<>>, ret |-> "none"]

ConnectInit ==
    /\ started = TRUE
    /\ svc \in {h \in StrategyHandles : ~h.loaded}
    /\ store = <<>>
    /\ pc = "coroutines"
    /\ user_query = <<>>
    /\ route = "none"
    /\ context_results = <<>>
    /\ calls = <<>>
    /\ chatResp = NoResp
    /\ uploadResp = NoUpload
    /\ running = 0
    /\ rq = [r \in Requests |-> [kind |-> "none", pc |-> "start", call |-> NewCall]]
    /\ handle = [storeUsable         |-> svc.mc,
                 providerUsable      |-> svc.bc,
                 storeEstablished    |-> IF svc.mc THEN 1 ELSE 0,
                 providerEstablished |-> IF svc.bc THEN 1 ELSE 0]

\* coroutine r may take its next step: it has the loop, or the loop is free
\* and r is suspended in the middle of its call
Holds(r) ==
    \/ running = r
    \/ running = 0 /\ rq[r].pc \notin {"start", "done"}

connFrame == <<started, store, pc, user_query, route, context_results, calls,
               chatResp, uploadResp>>

\* the loop starts a strategy call
CoStart ==
    \E r \in Requests, kind \in {"similar", "field"} :
        /\ rq[r].pc = "start"
        /\ running = 0
        /\ rq' = [rq EXCEPT ![r] = [kind |-> kind,
                                    pc   |-> IF kind = "similar" THEN "l21" ELSE "l72",
                                    call |-> NewCall]]
        /\ running' = r
        /\ UNCHANGED <<svc, handle, connFrame>>

\* search_similar_readings: `if not milvus_service.connected:`
SimilarCheckConnected ==
    \E r \in Requests :
        /\ rq[r].pc = "l21"
        /\ Holds(r)
        /\ rq' = [rq EXCEPT ![r].pc = IF ~svc.mc THEN "connect_try" ELSE "l24"]
        /\ running' = r
        /\ UNCHANGED <<svc, handle, connFrame>>

\* MilvusService.connect, one pass through the try: connections.connect and
\* list_collections
ConnectAttempt ==
    \E r \in Requests, ok \in BOOLEAN :
        /\ rq[r].pc = "connect_try"
        /\ Holds(r)
        /\ rq' = [rq EXCEPT
                    ![r].call.outcomes = Append(@, ok),
                    ![r].pc = IF ok THEN "connect_ok"
                              ELSE IF RetryAgain(rq[r].call.attempt)
                                   THEN "connect_sleep" ELSE "connect_fail"]
        /\ handle' = IF ok
                     THEN [handle EXCEPT !.storeUsable = TRUE,
                                         !.storeEstablished = @ + 1]
                     ELSE handle
        /\ running' = r
        /\ UNCHANGED <<svc, connFrame>>

\* self.connected = True; return True
ConnectSucceed ==
    \E r \in Requests :
        /\ rq[r].pc = "connect_ok"
        /\ Holds(r)
        /\ svc' = [svc EXCEPT !.mc = TRUE]
        /\ rq' = [rq EXCEPT ![r].call.ret = "True", ![r].pc = "l24"]
        /\ running' = r
        /\ UNCHANGED <<handle, connFrame>>

\* time.sleep(retry_delay), then the next pass of `for attempt in
\* range(max_retries)`; a loop that runs out returns None
ConnectSleep ==
    \E r \in Requests :
        /\ rq[r].pc = "connect_sleep"
        /\ Holds(r)
        /\ rq' = [rq EXCEPT
                    ![r].call.sleeps = Append(@, retry_delay),
                    ![r].call.attempt = @ + 1,
                    ![r].call.ret = IF rq[r].call.attempt + 1 < max_retries
                                    THEN @ ELSE "None",
                    ![r].pc = IF rq[r].call.attempt + 1 < max_retries
                              THEN "connect_try" ELSE "l24"]
        /\ running' = IF SleepReleasesLoop THEN 0 ELSE r
        /\ UNCHANGED <<svc, handle, connFrame>>

\* self.connected = False; return False
ConnectGiveUp ==
    \E r \in Requests :
        /\ rq[r].pc = "connect_fail"
        /\ Holds(r)
        /\ svc' = [svc EXCEPT !.mc = FALSE]
        /\ rq' = [rq EXCEPT ![r].call.ret = "False", ![r].pc = "l24"]
        /\ running' = r
        /\ UNCHANGED <<handle, connFrame>>

\* search_similar_readings: `if not milvus_service.collection:
\* await milvus_service.create_collection()`
SimilarCheckCollection ==
    \E r \in Requests, ok \in BOOLEAN :
        /\ rq[r].pc = "l24"
        /\ Holds(r)
        /\ svc' = IF ~svc.coll THEN [svc EXCEPT !.coll = svc.mc /\ ok] ELSE svc
        /\ rq' = [rq EXCEPT ![r].pc = "rest"]
        /\ running' = r
        /\ UNCHANGED <<handle, connFrame>>

\* search_by_address, search_by_context: `if not milvus_service.collection:
\* return []`, else collection.load()
FieldCheckCollection ==
    \E r \in Requests :
        /\ rq[r].pc = "l72"
        /\ Holds(r)
        /\ rq' = [rq EXCEPT ![r].pc = IF ~svc.coll THEN "rest" ELSE "l78"]
        /\ running' = r
        /\ UNCHANGED <<svc, handle, connFrame>>

\* `if not bedrock_service.connected:`
FieldCheckProvider ==
    \E r \in Requests :
        /\ rq[r].pc = "l78"
        /\ Holds(r)
        /\ rq' = [rq EXCEPT ![r].pc = IF ~svc.bc THEN "bconnect" ELSE "rest"]
        /\ running' = r
        /\ UNCHANGED <<svc, handle, connFrame>>

\* BedrockService.connect: self.bedrock_runtime = boto3.client(...); an
\* exception sets connected = False
BedrockCreateClient ==
    \E r \in Requests, ok \in BOOLEAN :
        /\ rq[r].pc = "bconnect"
        /\ Holds(r)
        /\ handle' = IF ok THEN [handle EXCEPT !.providerUsable = TRUE] ELSE handle
        /\ svc' = IF ok THEN svc ELSE [svc EXCEPT !.bc = FALSE]
        /\ rq' = [rq EXCEPT ![r].pc = IF ok THEN "bconnect_list" ELSE "rest"]
        /\ running' = r
        /\ UNCHANGED connFrame

\* BedrockService.connect: list_foundation_models(), then connected = True;
\* an exception sets connected = False
BedrockListModels ==
    \E r \in Requests, ok \in BOOLEAN :
        /\ rq[r].pc = "bconnect_list"
        /\ Holds(r)
        /\ svc' = [svc EXCEPT !.bc = ok]
        /\ handle' = IF ok THEN [handle EXCEPT !.providerEstablished = @ + 1]
                     ELSE handle
        /\ rq' = [rq EXCEPT ![r].pc = "rest"]
        /\ running' = r
        /\ UNCHANGED connFrame

\* the rest of the strategy call, to its return: the loop is free again
CoFinish ==
    \E r \in Requests :
        /\ rq[r].pc = "rest"
        /\ Holds(r)
        /\ rq' = [rq EXCEPT ![r].pc = "done"]
        /\ running' = 0
        /\ UNCHANGED <<svc, handle, connFrame>>

ConnectNext ==
    \/ CoStart
    \/ SimilarCheckConnected
    \/ ConnectAttempt
    \/ ConnectSucceed
    \/ ConnectSleep
    \/ ConnectGiveUp
    \/ SimilarCheckCollection
    \/ FieldCheckCollection
    \/ FieldCheckProvider
    \/ BedrockCreateClient
    \/ BedrockListModels
    \/ CoFinish

ConnectSpec == ConnectInit /\ [][ConnectNext]_vars

(***************************************************************************)
(* Properties of the router and of the fallback chain.                     *)
(***************************************************************************)
\* sub occurs in s, letter by letter
Occurs(s, sub) ==
    \E i \in 1..Len(s) :
        \A j \in 1..Len(sub) : i + j - 1 <= Len(s) /\ s[i + j - 1] = sub[j]

HasRecency(q) == \E w \in DOMAIN RecencyKeywords : Occurs(Lower(q), RecencyKeywords[w])

HasContext(q) == \E w \in DOMAIN ContextKeywords : Occurs(Lower(q), ContextKeywords[w])

HasAddress(q) == \E w \in DOMAIN AddressKeywords : Occurs(Lower(q), AddressKeywords[w])

\* the questions chat can be routing, and for each the rule sets with a
\* keyword in it
Routable == {Strip(q) : q \in Questions}

Rules ==
    [q \in Routable |->
        [recency |-> HasRecency(q), context |-> HasContext(q),
         address |-> HasAddress(q)]]

\* the stage-1 strategy each rule set stands for
FnOfRule(q) ==
    IF Rules[q].recency THEN "search_by_recency"
    ELSE IF Rules[q].context THEN "search_by_context"
    ELSE IF Rules[q].address THEN "search_by_address"
    ELSE "search_similar_readings"

\* stage i of the request in flight returned a list, and it was empty
ReturnedEmpty(i) == ~calls[i].raised /\ calls[i].res = <<>>

\* C1: the first strategy chat calls is decided by the first rule set, in
\* the order Recency, Context, Address, with a keyword inside the
\* lower-cased question; a recency keyword always gives recency search, a
\* context keyword without a recency keyword gives context search even
\* beside an address keyword ("usage address"), address keywords alone give
\* address search
C1_RoutingPrecedence ==
    calls # <<>> =>
        /\ (Rules[user_query].recency => calls[1].fn = "search_by_recency")
        /\ (~Rules[user_query].recency /\ Rules[user_query].context
               => calls[1].fn = "search_by_context")
        /\ (~Rules[user_query].recency /\ ~Rules[user_query].context
               /\ Rules[user_query].address => calls[1].fn = "search_by_address")
        /\ (user_query = QUsageAddress => calls[1].fn = "search_by_context")
        /\ (user_query = QLast => calls[1].fn = "search_by_recency")
        /\ calls[1].query = user_query

C1_Witness ==
    /\ user_query = QUsageAddress
    /\ calls # <<>>
    /\ calls[1].fn = "search_by_context"
    /\ Rules[user_query].address

\* C2: stage 1 is search_similar_readings over the combined embedding with
\* limit 5 exactly when the lower-cased question contains no keyword of the
\* three rule sets; "at" inside "what" is a match and gives address search
C2_DefaultIffNoKeyword ==
    calls # <<>> =>
        /\ (calls[1].fn = "search_similar_readings"
              <=> ~Rules[user_query].recency /\ ~Rules[user_query].context
                     /\ ~Rules[user_query].address)
        /\ (calls[1].fn = "search_similar_readings"
              => /\ calls[1].search_type = "combined"
                 /\ calls[1].field = "combined_embedding"
                 /\ calls[1].limit = 5)
        /\ (user_query = QWhat => calls[1].fn = "search_by_address")

C2_Witness ==
    /\ user_query = QHi
    /\ Len(calls) = 1
    /\ calls[1].fn = "search_similar_readings"
    /\ calls[1].res # <<>>

\* C3: when stage 1 returns at least one record no fallback stage runs, and
\* the context given to generation is that list, unchanged
C3_FallbackMonotonicity ==
    (calls # <<>> /\ ~calls[1].raised /\ calls[1].res # <<>>) =>
        /\ Len(calls) = 1
        /\ pc \in {"generate", "done"}
        /\ context_results = calls[1].res
        /\ (pc = "done" =>
              chatResp = [status |-> 200, sources_count |-> Len(calls[1].res)])

C3_Witness ==
    /\ pc = "done"
    /\ chatResp.status = 200
    /\ Len(calls) = 1
    /\ Len(calls[1].res) = 2
    /\ context_results = calls[1].res

\* C4: stage 2 runs exactly when stage 1 returned no record, and it is
\* search_similar_readings with the question, search_type "address" (the
\* address_embedding field) and limit 10, twice the limit 5 of stage 1
C4_Stage2 ==
    /\ (Len(calls) >= 2 =>
          /\ ReturnedEmpty(1)
          /\ calls[2].fn = "search_similar_readings"
          /\ calls[2].query = user_query
          /\ calls[2].search_type = "address"
          /\ calls[2].field = "address_embedding"
          /\ calls[2].limit = 10
          /\ calls[1].limit = 5
          /\ calls[2].limit = 2 * calls[1].limit)
    /\ (Len(calls) = 1 /\ ReturnedEmpty(1) => pc = "stage2")
    /\ (pc = "stage2" => Len(calls) = 1 /\ ReturnedEmpty(1))

C4_Witness ==
    /\ Len(calls) = 2
    /\ calls[2].res # <<>>
    /\ user_query = QLast
    /\ pc = "generate"

\* C5: stage 3 runs exactly when stages 1 and 2 both returned no record; it
\* is search_by_recency with the empty query and limit 5; at most three
\* calls are made, in the order stage 1, 2, 3; the chain stops at the first
\* non-empty list; the list of stage 3 is the context even when it is empty
C5_Stage3 ==
    /\ Len(calls) <= 3
    /\ (Len(calls) = 3 =>
          /\ ReturnedEmpty(1) /\ ReturnedEmpty(2)
          /\ calls[1].fn = FnOfRule(user_query)
          /\ calls[2].search_type = "address"
          /\ calls[3].fn = "search_by_recency"
          /\ calls[3].query = <<>>
          /\ calls[3].limit = 5
          /\ calls[3].limit = calls[1].limit
          /\ (~calls[3].raised =>
                /\ pc \in {"generate", "done"}
                /\ context_results = calls[3].res
                /\ (pc = "done" =>
                      chatResp = [status |-> 200,
                                  sources_count |-> Len(calls[3].res)])))
    /\ (Len(calls) = 2 /\ ReturnedEmpty(2) => pc = "stage3")
    /\ (pc = "stage3" => Len(calls) = 2 /\ ReturnedEmpty(1) /\ ReturnedEmpty(2))
    /\ (Len(calls) = 2 /\ calls[2].res # <<>> =>
          pc \in {"generate", "done"} /\ context_results = calls[2].res)

C5_Witness ==
    /\ pc = "done"
    /\ Len(calls) = 3
    /\ ~calls[3].raised
    /\ calls[3].res = <<>>
    /\ chatResp = [status |-> 200, sources_count |-> 0]

\* C6: when all three stages yield no record, also through a failure of
\* the store or of the embedding provider during a stage, the context is
\* the empty list and chat goes on to generation and answers 200 with
\* sources_count 0, never an error
C6_FallbackExhaustion ==
    (Len(calls) = 3 /\ \A i \in 1..3 : calls[i].res = <<>>) =>
        /\ pc \in {"generate", "done"}
        /\ context_results = <<>>
        /\ (pc = "done" => chatResp = [status |-> 200, sources_count |-> 0])

\* C7: no strategy call raises to chat: every failure of the store or of
\* the embedding provider inside a strategy comes back as an empty list
C7_StrategiesNeverRaise ==
    /\ \A i \in DOMAIN calls : ~calls[i].raised
    /\ chatResp.status # 500

\* C8 as claimed: with a reading in the store, the context given to
\* generation is never empty
C8_Availability ==
    (pc = "generate" /\ store # <<>>) => context_results # <<>>

\* C8: the context given to generation is empty only after a stage 3 whose
\* collection.load() failed or whose query found the store without a
\* reading; with a reading in the store when stage 3 queries it and a load
\* that succeeds, the context is never empty
C8_AvailabilityWhenStoreAnswers ==
    pc = "generate" =>
        \/ context_results # <<>>
        \/ /\ Len(calls) = 3
           /\ (~calls[3].load \/ calls[3].nrows = 0)

C8_Witness ==
    /\ pc = "generate"
    /\ Len(calls) = 3
    /\ calls[3].load
    /\ calls[3].nrows = 2
    /\ Len(context_results) = 2

\* C9: every record of a non-empty list a strategy returns has a rank, and
\* the ranks are 1, 2, ..., len in order
C9_RankContiguity ==
    \A c \in DOMAIN calls :
        \A i \in DOMAIN calls[c].res :
            /\ "rank" \in DOMAIN calls[c].res[i]
            /\ calls[c].res[i].rank = i

\* C10: every record a strategy returns carries a search_type tag
C10_SearchTypeTag ==
    \A c \in DOMAIN calls :
        \A i \in DOMAIN calls[c].res :
            "search_type" \in DOMAIN calls[c].res[i]

(***************************************************************************)
(* Properties of the strategies, over the record of a strategy call.       *)
(***************************************************************************)
SimilarityFns ==
    {"search_similar_readings", "search_by_address", "search_by_context"}

\* the row has the text in its full_address, its city or its street_name
MatchesFilter(r, text) ==
    Occurs(r.full_address, text) \/ Occurs(r.city, text)
        \/ Occurs(r.street_name, text)

\* how many rows of the store the filter selects
NMatching(text) ==
    Cardinality({i \in DOMAIN store : MatchesFilter(store[i], text)})

\* the embedding, search and query calls among the remote calls of call c
RetrievalOps(c) ==
    {j \in DOMAIN calls[c].ops : calls[c].ops[j].op \in {"embed", "search", "query"}}

\* the search and query calls among them
StoreOps(c) ==
    {j \in DOMAIN calls[c].ops : calls[c].ops[j].op \in {"search", "query"}}

\* C11: in every list search_by_recency returns, the timestamps of
\* consecutive records are non-increasing (most recent first)
C11_RecencyOrdering ==
    \A c \in DOMAIN calls :
        calls[c].fn = "search_by_recency" =>
            \A i \in 1..(Len(calls[c].res) - 1) :
                calls[c].res[i].timestamp >= calls[c].res[i + 1].timestamp

C11_Witness ==
    /\ calls # <<>>
    /\ calls[1].fn = "search_by_recency"
    /\ Len(calls[1].raw) >= 2
    /\ calls[1].raw[1].timestamp < calls[1].raw[2].timestamp
    /\ Len(calls[1].res) >= 2
    /\ calls[1].res[1].timestamp > calls[1].res[2].timestamp

\* C12: search_by_recency asks the store for at most 2*limit rows; its list
\* has min(limit, rows fetched) records, never more than limit, each a
\* different fetched row, and no fetched row left out is more recent than
\* a returned one
C12_OverFetchAndTruncate ==
    \A c \in DOMAIN calls :
        calls[c].fn = "search_by_recency" =>
            LET e == calls[c] IN
            /\ \A j \in DOMAIN e.ops :
                  e.ops[j].op = "query" => e.ops[j].limit <= 2 * e.limit
            /\ Len(e.raw) <= 2 * e.limit
            /\ Len(e.res) <= e.limit
            /\ ~e.raised =>
                  /\ Len(e.res) = Min(e.limit, Len(e.raw))
                  /\ \A i \in DOMAIN e.res :
                        \E j \in DOMAIN e.raw : e.raw[j].id = e.res[i].id
                  /\ \A i, k \in DOMAIN e.res :
                        i # k => e.res[i].id # e.res[k].id
                  /\ \A j \in DOMAIN e.raw :
                        (\A i \in DOMAIN e.res : e.res[i].id # e.raw[j].id)
                          => \A i \in DOMAIN e.res :
                                e.res[i].timestamp >= e.raw[j].timestamp

C12_Witness ==
    /\ calls # <<>>
    /\ calls[1].fn = "search_by_recency"
    /\ calls[1].limit = 1
    /\ Len(store) = 3
    /\ Len(calls[1].raw) = 2
    /\ calls[1].raw[1].timestamp < calls[1].raw[2].timestamp
    /\ Len(calls[1].res) = 1
    /\ calls[1].res[1].id = calls[1].raw[2].id

\* C13: after a load that succeeded, the first store call of
\* search_by_recency is a query whose filter is the substring filter over
\* full_address, city and street_name for a query that is not blank, and
\* match-all for an empty or blank one; when that query fails, for a
\* malformed filter or a fault of the store, the match-all query is issued
\* next, and when it answers its rows are what the strategy returns from,
\* with no error
C13_FilterAndFallback ==
    \A c \in DOMAIN calls :
        (calls[c].fn = "search_by_recency" /\ Len(calls[c].ops) >= 2) =>
            LET e == calls[c]
                filtered == Strip(e.query) # <<>>
            IN
            /\ e.ops[2].op = "query"
            /\ e.ops[2].arg = (IF filtered THEN "like" ELSE "all")
            /\ e.ops[2].ok =>
                  /\ Len(e.ops) = 2
                  /\ ~e.raised
                  /\ filtered =>
                        /\ \A j \in DOMAIN e.raw : MatchesFilter(e.raw[j], e.query)
                        /\ Len(e.raw) = Min(2 * e.limit, NMatching(e.query))
                  /\ ~filtered => Len(e.raw) = Min(2 * e.limit, Len(store))
            /\ ~e.ops[2].ok =>
                  /\ Len(e.ops) = 3
                  /\ e.ops[3].op = "query"
                  /\ e.ops[3].arg = "all"
                  /\ e.ops[3].ok =>
                        /\ ~e.raised
                        /\ Len(e.raw) = Min(2 * e.limit, Len(store))
                        /\ Len(e.res) = Min(e.limit, Len(e.raw))

C13_Witness ==
    /\ calls # <<>>
    /\ calls[1].fn = "search_by_recency"
    /\ calls[1].query = QOaks
    /\ Len(calls[1].ops) = 3
    /\ ~calls[1].ops[2].ok
    /\ calls[1].ops[3].ok
    /\ Len(calls[1].res) = 2
    /\ \E i \in DOMAIN calls[1].res :
          ~MatchesFilter(calls[1].res[i], <<"O","a","k">>)

\* C14: a row with None in a scalar field still gives a record, with the
\* zero value of the field in it: no strategy call raises, none loses a
\* record the store gave it, and no record carries None
C14_NullCoercion ==
    \A c \in DOMAIN calls :
        LET e == calls[c] IN
        /\ ~e.raised
        /\ Len(e.res) = (IF e.fn = "search_by_recency"
                         THEN Min(e.limit, Len(e.raw)) ELSE Len(e.raw))
        /\ \A i \in DOMAIN e.res :
              \A f \in NullableFields \cap DOMAIN e.res[i] :
                  e.res[i][f] # NoneOf(f)

\* C15: a similarity strategy returns one record per hit of the store, in
\* the order of the hits, with the distance of the hit as similarity_score;
\* the hits coming in ascending distance, the scores of consecutive records
\* are non-decreasing
C15_ScoreMonotonicity ==
    \A c \in DOMAIN calls :
        calls[c].fn \in SimilarityFns =>
            LET e == calls[c] IN
            /\ ~e.raised
            /\ (\A i \in 1..(Len(e.raw) - 1) :
                    e.raw[i].distance <= e.raw[i + 1].distance)
                 => /\ Len(e.res) = Len(e.raw)
                    /\ \A i \in DOMAIN e.res :
                          /\ e.res[i].id = e.raw[i].entity.id
                          /\ e.res[i].similarity_score = e.raw[i].distance
                    /\ \A i \in 1..(Len(e.res) - 1) :
                          e.res[i].similarity_score <= e.res[i + 1].similarity_score

C15_Witness ==
    /\ calls # <<>>
    /\ calls[1].fn = "search_by_address"
    /\ Len(calls[1].res) = 2
    /\ calls[1].res[1].similarity_score < calls[1].res[2].similarity_score

\* C16: every strategy tries to establish each handle it needs and finds
\* missing: the store connection and the collection for all four, the
\* provider connection for the three similarity strategies; none returns
\* without having tried
C16_LazyConnect ==
    \A c \in DOMAIN calls :
        LET e == calls[c]
            tried(name) == \E j \in DOMAIN e.ops : e.ops[j].op = name
        IN
        /\ ~e.before.mc => tried("connect")
        /\ ~e.before.coll => tried("create")
        /\ (e.fn \in SimilarityFns /\ ~e.before.bc) => tried("bconnect")

\* C17: every search or query a strategy issues comes after a
\* collection.load(), in the same call or earlier in the process
C17_LoadBeforeSearch ==
    \A c \in DOMAIN calls :
        LET e == calls[c] IN
        \A j \in StoreOps(c) :
            \/ e.before.loaded
            \/ \E i \in 1..(j - 1) : e.ops[i].op = "load"

\* C19 as claimed: a strategy call issues at most one embedding call and
\* one search or query, and a failed one is not issued again: it ends the
\* call with an empty list
C19_NoRetry ==
    \A c \in DOMAIN calls :
        LET e == calls[c] IN
        /\ Cardinality(RetrievalOps(c)) <= 2
        /\ Cardinality(StoreOps(c)) <= 1
        /\ \A j \in RetrievalOps(c) :
              ~e.ops[j].ok => (j = Len(e.ops) /\ ~e.raised /\ e.res = <<>>)

\* C19: a strategy call issues at most two embedding, search and query
\* calls.  A similarity strategy issues at most one embedding call and
\* after it at most one search; a failed one ends the call with an empty
\* list.  search_by_recency issues no embedding call and at most two
\* queries, the second one the match-all query and only after the first
\* has failed; no call follows a failed second query
C19_AtMostTwoCalls ==
    \A c \in DOMAIN calls :
        LET e == calls[c] IN
        /\ Cardinality(RetrievalOps(c)) <= 2
        /\ e.fn \in SimilarityFns =>
              /\ Cardinality(StoreOps(c)) <= 1
              /\ Cardinality(RetrievalOps(c) \ StoreOps(c)) <= 1
              /\ \A j \in StoreOps(c) : e.ops[j].op = "search" /\ j = Len(e.ops)
              /\ \A j \in RetrievalOps(c) :
                    ~e.ops[j].ok => (j = Len(e.ops) /\ ~e.raised /\ e.res = <<>>)
        /\ e.fn = "search_by_recency" =>
              /\ RetrievalOps(c) = StoreOps(c)
              /\ \A j \in StoreOps(c) : e.ops[j].op = "query"
              /\ \A i, j \in StoreOps(c) :
                    i < j => (~e.ops[i].ok /\ e.ops[j].arg = "all"
                                /\ j = Len(e.ops))

C19_Witness ==
    /\ calls # <<>>
    /\ calls[1].fn = "search_by_recency"
    /\ calls[1].query = QEmpty
    /\ Cardinality(StoreOps(1)) = 2
    /\ ~calls[1].ops[2].ok
    /\ calls[1].ops[2].arg = "all"
    /\ ~calls[1].ops[3].ok
    /\ calls[1].raised

(***************************************************************************)
(* Properties of MilvusService.connect and of the check-then-connect.      *)
(***************************************************************************)
\* coroutine r is inside MilvusService.connect
InConnect(r) ==
    rq[r].pc \in {"connect_try", "connect_ok", "connect_sleep", "connect_fail"}

\* C18: a connect() call makes at most 3 attempts; a success is its last
\* attempt, after which it returns True with connected = True; each delay
\* is the fixed one and comes between two attempts, never after the last;
\* after 3 failures it returns False with connected = False; a call under
\* way always has a next step, so with at most 3 attempts it terminates
C18_ConnectRetries ==
    \A r \in DOMAIN rq :
        LET c == rq[r].call
            n == Len(c.outcomes)
        IN
        /\ n <= 3
        /\ \A i \in 1..(n - 1) : ~c.outcomes[i]
        /\ \A i \in DOMAIN c.sleeps : c.sleeps[i] = 2
        /\ Len(c.sleeps) <= 2
        /\ Len(c.sleeps) = (IF rq[r].pc = "connect_try" THEN n
                             ELSE IF n = 0 THEN 0 ELSE n - 1)
        /\ c.ret \in {"none", "True", "False"}
        /\ rq[r].pc \in {"connect_ok", "connect_fail"} => c.ret = "none"
        /\ c.ret = "True" => n >= 1 /\ c.outcomes[n]
        /\ c.ret = "False" => n = 3 /\ ~c.outcomes[3]
        /\ (n >= 1 /\ c.outcomes[n]) => rq[r].pc = "connect_ok" \/ c.ret = "True"
        /\ (n = 3 /\ ~c.outcomes[3])
              => rq[r].pc = "connect_fail" \/ c.ret = "False"
        /\ (rq[r].pc = "l24" /\ c.ret = "True") => svc.mc
        /\ (rq[r].pc = "l24" /\ c.ret = "False") => ~svc.mc
        /\ InConnect(r) =>
              /\ running = r
              /\ ENABLED (ConnectAttempt \/ ConnectSucceed \/ ConnectSleep
                            \/ ConnectGiveUp)

C18_Witness ==
    \E r \in DOMAIN rq :
        /\ rq[r].pc = "l24"
        /\ rq[r].call.outcomes = <<FALSE, FALSE, TRUE>>
        /\ rq[r].call.sleeps = <<2, 2>>
        /\ rq[r].call.ret = "True"
        /\ svc.mc

\* C20: with several strategy calls in flight while a handle is missing,
\* the store connection and the provider connection are each established
\* at most once in the life of the process, and connected is never True
\* while the connection behind it is not usable
C20_ConnectOnce ==
    /\ handle.storeEstablished <= 1
    /\ handle.providerEstablished <= 1
    /\ svc.mc => handle.storeUsable
    /\ svc.bc => handle.providerUsable

C20_Witness ==
    /\ DOMAIN rq = Requests
    /\ \A r \in Requests : rq[r].kind = "similar" /\ rq[r].pc = "done"
    /\ \E r \in Requests :
          /\ rq[r].call.outcomes = <<FALSE, TRUE>>
          /\ rq[r].call.ret = "True"
    /\ \E r \in Requests : rq[r].call.outcomes = <<>>
    /\ handle.storeEstablished = 1

(***************************************************************************)
(* Properties of the responses of chat and of the frame of retrieval.      *)
(***************************************************************************)
\* C21: chat answers 503 only when the embedding provider and the store are
\* both unusable, and then before any strategy call; with one of the two up
\* a question that is not blank ends in a generated answer (status 200),
\* never in an error response
C21_UnavailableOnlyWhenBothDown ==
    /\ chatResp.status = 503 => (~svc.bc /\ ~svc.coll /\ calls = <<>>)
    /\ (pc = "done" /\ user_query # <<>> /\ (svc.bc \/ svc.coll))
          => chatResp.status = 200

(***************************************************************************)
(* The upload path on its own: every answer of the vision model, every     *)
(* outcome of the embedding calls and of insert and flush, with the        *)
(* handles in any state the startup can leave them in.                     *)
(***************************************************************************)
\* what the vision model can answer: besides the three of VisionResponses,
\* a JSON object whose confidence is below 0, inside 0..1, null, no number,
\* or missing
UploadVisions ==
    VisionResponses \cup
    {[kind |-> "json", meter_value |-> 5, confidence |-> -3, conf_kind |-> "number"],
     [kind |-> "json", meter_value |-> 5, confidence |-> 7, conf_kind |-> "number"],
     [kind |-> "json", meter_value |-> 5, confidence |-> 0, conf_kind |-> "null"],
     [kind |-> "json", meter_value |-> 5, confidence |-> 0, conf_kind |-> "text"],
     [kind |-> "json", meter_value |-> 5, confidence |-> 0, conf_kind |-> "missing"]}

UploadInit ==
    /\ started = TRUE
    /\ svc \in {h \in StrategyHandles : ~h.loaded}
    /\ store = <<>>
    /\ pc = "upload"
    /\ user_query = <<>>
    /\ route = "none"
    /\ context_results = <<>>
    /\ calls = <<>>
    /\ chatResp = NoResp
    /\ uploadResp = NoUpload
    /\ running = 0
    /\ rq = <<>>
    /\ handle = NoHandle

\* one upload request whose vision answer is of the given kind
UploadRequest(kind) ==
    \E now \in Timestamps, vision \in {v \in UploadVisions : v.kind = kind},
       embedOk \in BOOLEAN, insertOk \in BOOLEAN, flushOk \in BOOLEAN :
        UploadWith(ScenarioAddresses[1], now, vision, embedOk, insertOk, flushOk)

UploadJson == UploadRequest("json")

UploadText == UploadRequest("text")

UploadError == UploadRequest("error")

UploadNext ==
    \/ UploadJson
    \/ UploadText
    \/ UploadError

UploadSpec == UploadInit /\ [][UploadNext]_vars

\* C22: no step of chat, which is where the four strategies run, changes
\* the stored readings; the store changes only in a step of the upload in
\* which store_meter_reading was called, and then by one record appended
\* behind the records that were there, which stay as they were
C22_RetrievalReadOnly ==
    [][/\ (pc' # pc \/ calls' # calls \/ chatResp' # chatResp) => store' = store
       /\ store' # store =>
             /\ uploadResp'.store_called
             /\ chatVars' = chatVars
             /\ Len(store') = Len(store) + 1
             /\ SubSeq(store', 1, Len(store)) = store]_vars

C22_Witness ==
    /\ Len(store) = 2
    /\ Len(calls) = 3
    /\ calls[1].fn = "search_by_context"
    /\ calls[3].fn = "search_by_recency"
    /\ Len(calls[3].res) = 2
    /\ uploadResp.stored

\* C23: every stored reading has a confidence in [0,1] (0..10 in tenths),
\* and so has the confidence of every call of store_meter_reading, whatever
\* the vision model answered
C23_ConfidenceClamped ==
    /\ \A i \in DOMAIN store : store[i].confidence \in 0..10
    /\ uploadResp.store_called => uploadResp.confidence \in 0..10

C23_Witness ==
    /\ Len(store) = 2
    /\ store[1].confidence = 10
    /\ store[2].confidence = 0
    /\ uploadResp.analysis = "json"
    /\ uploadResp.stored

\* C28: analyze_meter_image, once called, returns a dictionary and never
\* None, also when the answer of the vision model is not JSON
C28_AnalyzeNeverNone ==
    uploadResp.analysis # "None"

\* C30: an upload answers success exactly when the vision analysis gave a
\* dictionary and the embeddings were generated, that is when
\* store_meter_reading was called, whatever it returned; a request whose
\* embedding generation failed, or that ended before it, leaves the store as
\* it was
C30_SuccessRegardlessOfStorage ==
    [][/\ uploadResp'.store_called <=> uploadResp'.success
       /\ uploadResp'.success => uploadResp'.status = 200
       /\ ~uploadResp'.store_called =>
             /\ store' = store
             /\ ~uploadResp'.stored]_vars

C30_Witness ==
    /\ store = <<>>
    /\ uploadResp.success
    /\ uploadResp.store_called
    /\ ~uploadResp.stored

\* the vector field the call is to search: address_embedding for
\* search_by_address, combined_embedding for search_by_context, and for
\* search_similar_readings the one its search_type names
AssignedField(e) ==
    IF e.fn = "search_by_address" THEN "address_embedding"
    ELSE IF e.fn = "search_by_context" THEN "combined_embedding"
    ELSE IF e.search_type = "combined" THEN "combined_embedding"
    ELSE "address_embedding"

\* the calls of the given kind among the remote calls of call c
OpsOf(c, name) == {j \in DOMAIN calls[c].ops : calls[c].ops[j].op = name}

\* C24: a similarity strategy issues at most one embedding call and at most
\* one search; its search comes after the one embedding call, which
\* succeeded, names the vector field assigned to the strategy and asks for
\* exactly `limit` neighbours; the hits it works on are at most `limit`
\* and carry the distance between that field of the row and the embedding
\* of the query
C24_AssignedVectorField ==
    \A c \in DOMAIN calls :
        calls[c].fn \in SimilarityFns =>
            LET e == calls[c] IN
            /\ Cardinality(OpsOf(c, "embed")) <= 1
            /\ Cardinality(OpsOf(c, "search")) <= 1
            /\ \A j \in OpsOf(c, "search") :
                  /\ e.ops[j].arg = AssignedField(e)
                  /\ e.ops[j].limit = e.limit
                  /\ \E i \in OpsOf(c, "embed") : i < j /\ e.ops[i].ok
            /\ e.raw # <<>> => \E j \in OpsOf(c, "search") : e.ops[j].ok
            /\ Len(e.raw) <= e.limit
            /\ \A i \in DOMAIN e.raw :
                  e.raw[i].distance =
                      L2(e.raw[i].entity[AssignedField(e)], Embed(e.query))

C24_Witness ==
    /\ calls # <<>>
    /\ calls[1].fn = "search_by_context"
    /\ calls[1].limit = 2
    /\ Len(store) = 3
    /\ Len(calls[1].res) = 2
    /\ calls[1].raw[1].entity.address_embedding
          # calls[1].raw[1].entity.combined_embedding
    /\ Cardinality(OpsOf(1, "embed")) = 1
    /\ Cardinality(OpsOf(1, "search")) = 1

QWhatsLatest ==
    <<"w","h","a","t","'","s"," ","t","h","e"," ","l","a","t","e","s","t",
      " ","r","e","a","d","i","n","g">>

QUsageOak == <<"u","s","a","g","e"," ","o","n"," ","O","a","k">>

ScenarioQuestions == {QWhatsLatest, QLatest, QUsageOak}

ScenarioInit ==
    /\ started = TRUE
    /\ svc = [mc |-> TRUE, coll |-> TRUE, bc |-> TRUE, loaded |-> FALSE]
    /\ store = ScenarioStore(3)
    /\ pc = "idle"
    /\ user_query = <<>>
    /\ route = "none"
    /\ context_results = <<>>
    /\ calls = <<>>
    /\ chatResp = NoResp
    /\ uploadResp = NoUpload
    /\ running = 0
    /\ rq = <<>>
    /\ handle = NoHandle

ScenarioChatBegin == ChatBeginFrom(ScenarioQuestions)

\* the strategy call of the stage chat is at
ScenarioStage(at, a, nextpc) ==
    /\ pc = at
    /\ \E env \in Envs(a) :
          CallRecording(a, env, nextpc, StrategyEntry(a, Invoke(a, env)))

ScenarioNext ==
    \/ ScenarioChatBegin
    \/ ScenarioStage("stage1", Stage1Args, "after1")
    \/ ScenarioStage("stage2", Stage2Args, "after2")
    \/ ScenarioStage("stage3", Stage3Args, "generate")
    \/ ChatGenerate
    \/ ChatReturn

ScenarioSpec == ScenarioInit /\ [][ScenarioNext]_vars

(***************************************************************************)
(* Properties of the two scenarios of chat over the three readings.        *)
(***************************************************************************)
\* the store answered call c: its load went through and one of its queries
\* returned rows
StoreAnswered(c) ==
    /\ \A j \in OpsOf(c, "load") : calls[c].ops[j].ok
    /\ \E j \in OpsOf(c, "query") : calls[c].ops[j].ok

TimestampsOf(res) == [i \in DOMAIN res |-> res[i].timestamp]

RanksOf(res) == [i \in DOMAIN res |-> res[i].rank]

\* C25: over the three readings, "what's the latest reading" goes to
\* search_by_recency, is answered by the match-all query, and gives the
\* readings of timestamps 300, 200, 100 with ranks 1, 2, 3; and whatever
\* the question, a stage 1 that is search_by_recency and is answered by the
\* store gives the three readings in that order, never an empty list
C25_LatestReading ==
    calls # <<>> =>
        /\ user_query = QWhatsLatest =>
              /\ calls[1].fn = "search_by_recency"
              /\ StoreAnswered(1) =>
                    \E j \in OpsOf(1, "query") :
                        calls[1].ops[j].ok /\ calls[1].ops[j].arg = "all"
        /\ (calls[1].fn = "search_by_recency" /\ StoreAnswered(1)) =>
              /\ ~calls[1].raised
              /\ TimestampsOf(calls[1].res) = <<300, 200, 100>>
              /\ RanksOf(calls[1].res) = <<1, 2, 3>>
              /\ Len(calls) = 1

\* call c made its embedding call and the provider failed it
EmbeddingFailed(c) ==
    /\ OpsOf(c, "embed") # {}
    /\ \A j \in OpsOf(c, "embed") : ~calls[c].ops[j].ok

\* C26: for "usage on Oak" stage 1 is search_by_context; when the provider
\* fails its embedding call it returns no record and stage 2 runs, the
\* address-mode search_similar_readings; when the provider fails that
\* embedding call too, stage 2 returns no record and stage 3 runs, the
\* recency search with the empty query, which, answered by the store,
\* returns the three readings in the order 300, 200, 100; that list is the
\* context of the generation and the answer counts 3 sources
C26_ProviderDownFallsToRecency ==
    (user_query = QUsageOak /\ calls # <<>>) =>
        /\ calls[1].fn = "search_by_context"
        /\ calls[1].field = "combined_embedding"
        /\ EmbeddingFailed(1) =>
              /\ ReturnedEmpty(1)
              /\ Len(calls) = 1 => pc = "stage2"
              /\ Len(calls) >= 2 =>
                    /\ calls[2].fn = "search_similar_readings"
                    /\ calls[2].search_type = "address"
                    /\ calls[2].query = QUsageOak
                    /\ EmbeddingFailed(2) =>
                          /\ ReturnedEmpty(2)
                          /\ Len(calls) = 2 => pc = "stage3"
                          /\ Len(calls) >= 3 =>
                                /\ Len(calls) = 3
                                /\ calls[3].fn = "search_by_recency"
                                /\ calls[3].query = <<>>
                                /\ StoreAnswered(3) =>
                                      /\ ~calls[3].raised
                                      /\ TimestampsOf(calls[3].res) = <<300, 200, 100>>
                                      /\ RanksOf(calls[3].res) = <<1, 2, 3>>
                                      /\ pc \in {"generate", "done"}
                                      /\ context_results = calls[3].res
                                      /\ pc = "done" =>
                                            chatResp = [status |-> 200,
                                                        sources_count |-> 3]

C26_Witness ==
    /\ user_query = QUsageOak
    /\ Len(calls) = 3
    /\ EmbeddingFailed(1)
    /\ EmbeddingFailed(2)
    /\ StoreAnswered(3)
    /\ pc = "done"
    /\ chatResp = [status |-> 200, sources_count |-> 3]
    /\ TimestampsOf(context_results) = <<300, 200, 100>>

(***************************************************************************)
(* The result normalizer: convert_milvus_result and the conversion loop    *)
(* inside search_by_recency, applied to a row as the store client hands    *)
(* it over.  A field value is a tag and its elements:                      *)
(*   "scalar"   one element: a Python number or text (np FALSE) or a       *)
(*              numpy scalar (np TRUE, has .item())                        *)
(*   "ndarray"  a numpy array: has .item(), which raises unless the size   *)
(*              is 1, and .tolist()                                        *)
(*   "array"    an array.array: has .tolist(), no .item()                  *)
(*   "list", "tuple"  of Python numbers and numpy scalars                  *)
(***************************************************************************)
MaxDim == 2

\* the rows: a scalar field and a field of any kind
NativeValues(tags, nps) ==
    UNION {[tag : tags, v : [1..n -> [np : nps, x : {1, 2}]]] : n \in 0..MaxDim}

NativeRows ==
    [meter_value : {val \in NativeValues({"scalar"}, BOOLEAN) : Len(val.v) = 1},
     address_embedding :
        {val \in NativeValues({"scalar"}, BOOLEAN) : Len(val.v) = 1}
        \cup {val \in NativeValues({"ndarray"}, {TRUE}) : Len(val.v) >= 1}
        \cup {val \in NativeValues({"array"}, {FALSE}) : Len(val.v) >= 1}
        \cup NativeValues({"list", "tuple"}, BOOLEAN)]

\* value.item(): the Python scalar of a numpy scalar or of a one-element
\* array
Item(value) == [tag |-> "scalar", v |-> <<[np |-> FALSE, x |-> value.v[1].x]>>]

\* mutant of ConvertValue: a numpy array turned into list(value), whose
\* elements are still numpy scalars
ConvertValueListOf(value, with_lists) ==
    IF value.tag = "scalar" /\ value.v[1].np
    THEN Item(value)
    ELSE IF value.tag \in {"ndarray", "array"}
    THEN [tag |-> "list", v |-> value.v]
    ELSE IF with_lists /\ value.tag \in {"list", "tuple"}
    THEN [tag |-> "list",
          v   |-> [i \in DOMAIN value.v |-> [np |-> FALSE, x |-> value.v[i].x]]]
    ELSE value

\* one pass of the loop over result.items(); with_lists: the branch for
\* list and tuple, which convert_milvus_result has and the loop inside
\* search_by_recency has not
ConvertValue(value, with_lists) ==
    IF (value.tag = "scalar" /\ value.v[1].np) \/ value.tag = "ndarray"
    THEN Item(value)
    ELSE IF value.tag = "array"
    THEN [tag |-> "list", v |-> value.v]
    ELSE IF with_lists /\ value.tag \in {"list", "tuple"}
    THEN [tag |-> "list",
          v   |-> [i \in DOMAIN value.v |-> [np |-> FALSE, x |-> value.v[i].x]]]
    ELSE value

\* .item() of an array of another size than 1 is a ValueError, which
\* nothing catches
ConvertRaises(result) ==
    \E key \in DOMAIN result :
        result[key].tag = "ndarray" /\ Len(result[key].v) # 1

convert_milvus_result(result, with_lists) ==
    IF ConvertRaises(result) THEN [raised |-> TRUE, rec |-> result]
    ELSE [raised |-> FALSE,
          rec    |-> [key \in DOMAIN result |->
                         ConvertValue(result[key], with_lists)]]

NormalizeInit ==
    /\ started = TRUE
    /\ svc = [mc |-> TRUE, coll |-> TRUE, bc |-> TRUE, loaded |-> TRUE]
    /\ store \in {<<row>> : row \in NativeRows}
    /\ pc = "normalize"
    /\ user_query = <<>>
    /\ route \in {"convert_milvus_result", "search_by_recency"}
    /\ context_results = <<>>
    /\ calls = <<>>
    /\ chatResp = NoResp
    /\ uploadResp = NoUpload
    /\ running = 0
    /\ rq = <<>>
    /\ handle = NoHandle

\* the normalizer applied to the row of the store
NormalizeRow ==
    /\ pc = "normalize"
    /\ context_results = <<>>
    /\ context_results' =
          <<convert_milvus_result(store[1], route = "convert_milvus_result")>>
    /\ UNCHANGED <<started, svc, store, pc, user_query, route, calls, chatResp,
                   uploadResp, connVars>>

\* the normalizer applied to the record it returned
NormalizeAgain ==
    /\ pc = "normalize"
    /\ Len(context_results) = 1
    /\ ~context_results[1].raised
    /\ context_results' =
          Append(context_results,
                 convert_milvus_result(context_results[1].rec,
                                       route = "convert_milvus_result"))
    /\ UNCHANGED <<started, svc, store, pc, user_query, route, calls, chatResp,
                   uploadResp, connVars>>

NormalizeNext ==
    \/ NormalizeRow
    \/ NormalizeAgain

NormalizeSpec == NormalizeInit /\ [][NormalizeNext]_vars

\* C27: the normalizer applied to a record it returned gives that record
\* again, for convert_milvus_result and for the conversion inside
\* search_by_recency: no field changes and nothing is raised
C27_IdempotentNormalization ==
    Len(context_results) = 2 =>
        /\ ~context_results[2].raised
        /\ context_results[2].rec = context_results[1].rec

C27_Witness ==
    /\ Len(context_results) = 2
    /\ route = "convert_milvus_result"
    /\ store[1].meter_value.v[1].np
    /\ store[1].address_embedding.tag = "tuple"
    /\ Len(store[1].address_embedding.v) = 2
    /\ store[1].address_embedding.v[1].np
    /\ context_results[1].rec # store[1]
    /\ context_results[1].rec.address_embedding.tag = "list"

=============================================================================
